---------------------------- MODULE Spec2Model ----------------------------
(***************************************************************************)
(* The browser front end of wasm-game-of-life (www/index.js): the render   *)
(* loop with its awaited sleep, the play/pause, clear and speed controls,  *)
(* the canvas click handler, and the Universe they drive.                  *)
(*                                                                         *)
(* JavaScript runs every handler to completion, so one action is one task  *)
(* of the event loop together with the promise continuations it releases.  *)
(* The Universe is implemented in the Rust crate, whose source is not part *)
(* of www/; tick, toggle_cell and clear follow its specification.          *)
(***************************************************************************)
EXTENDS Integers, Sequences, FiniteSets, TLC

(* ------------------------------ bounds -------------------------------- *)

\* Most render-loop continuations (sleep timers plus animation-frame
\* callbacks) pending at once; play() is not taken beyond it.
MaxChains == 2

\* The slider's values in the speed specification are the multiples of this.
SliderStep == 25

\* How far outside the canvas' bounding box a click event may lie (px).
ClickMargin == 1

(* ------------------------- program constants -------------------------- *)

\* const height = universe.height(), const width = universe.width(). The
\* crate fixes the two; the model takes the 3 x 3 torus, the smallest on
\* which the 8 neighbours of a cell are 8 different cells.
Height == 3
Width == 3

CELL_SIZE == 5
MAX_SPEED == 500
GRID_COLOR == "#CCCCCC"
DEAD_COLOR == "#FFFFFF"
ALIVE_COLOR == "#000000"

\* Cell.Dead and Cell.Alive, the two byte codes of the buffer.
Dead == 0
Alive == 1

\* animationId's null.
Null == 0

\* playPauseButton.textContent
PAUSE_ICON == "pause"
PLAY_ICON == "play"

(* ------------------------------ state --------------------------------- *)

VARIABLES
    paused,        \* let paused
    animationId,   \* let animationId: Null or the id of the last request
    timers,        \* number of pending sleep() timers of renderLoop
    rafs,          \* ids of the pending requestAnimationFrame(renderLoop)
    buttonText,    \* playPauseButton.textContent
    sliderValue,   \* slider.value
    sliderOutput,  \* sliderOutput.textContent
    speed,         \* let speed
    cells,         \* the Universe's buffer, row-major
    canvas,        \* fill colour last painted into each cell's rectangle
    viewFresh,     \* no mutating engine call since the last universe.cells()
    staleRead,     \* history: a redraw has read a view that was not fresh
    sleepDelay,    \* history: the delay handed to the most recent sleep()
    cleared,       \* history: "no", or clear() ran and no toggle_cell call
                   \* since: "cleared", then "ticked" once tick() ran
    beforeTick,    \* history: the buffer before tick(), the last engine call
    lastClick,     \* history: <<row, col>> handed to the last toggle_cell
    clickRun,      \* history: 1 or 2, its place in a pair of clicks there
    beforeClick,   \* history: the buffer before the first click of the pair
    frames,        \* history: the parity of the number of renderLoop runs
    lastPixel      \* history: the canvas pixel <<x, y>> of the last click

pvars == <<paused, animationId, timers, rafs, buttonText, sliderValue,
           sliderOutput, speed, cells, canvas, viewFresh, staleRead>>
hvars == <<sleepDelay, cleared, beforeTick, lastClick, clickRun, beforeClick,
           frames, lastPixel>>
vars == <<paused, animationId, timers, rafs, buttonText, sliderValue,
          sliderOutput, speed, cells, canvas, viewFresh, staleRead,
          sleepDelay, cleared, beforeTick, lastClick, clickRun,
          beforeClick, frames, lastPixel>>

ctlvars == <<paused, animationId, timers, rafs, buttonText>>
speedvars == <<sliderValue, sliderOutput, speed>>

NoClick == <<>>
NoPixel == <<>>
NoGrid == <<>>

(* ----------------------------- Universe ------------------------------- *)

Indices == 0 .. (Width * Height - 1)
Rows == 0 .. (Height - 1)
Cols == 0 .. (Width - 1)
Grids == [Indices -> {Dead, Alive}]

getIndex(row, column) == row * Width + column

InBounds(row, column) == row \in Rows /\ column \in Cols

\* One of the 8 neighbour positions, wrapped around the edges.
neighbor(buf, row, column, dr, dc) ==
    buf[getIndex((row + dr) % Height, (column + dc) % Width)]

live_neighbor_count(buf, row, column) ==
      neighbor(buf, row, column, Height - 1, Width - 1)
    + neighbor(buf, row, column, Height - 1, 0)
    + neighbor(buf, row, column, Height - 1, 1)
    + neighbor(buf, row, column, 0, Width - 1)
    + neighbor(buf, row, column, 0, 1)
    + neighbor(buf, row, column, 1, Width - 1)
    + neighbor(buf, row, column, 1, 0)
    + neighbor(buf, row, column, 1, 1)

\* tick(): the next generation, every cell from the previous buffer.
tick(buf) ==
    [idx \in Indices |->
        LET row == idx \div Width
            col == idx % Width
            n == live_neighbor_count(buf, row, col)
        IN  CASE buf[idx] = Alive /\ n < 2 -> Dead
              [] buf[idx] = Alive /\ n \in {2, 3} -> Alive
              [] buf[idx] = Alive /\ n > 3 -> Dead
              [] buf[idx] = Dead /\ n = 3 -> Alive
              [] OTHER -> buf[idx]]

\* toggle_cell(row, column) on in-range indices.
toggle_cell(buf, row, column) ==
    [buf EXCEPT ![getIndex(row, column)] = IF @ = Dead THEN Alive ELSE Dead]

\* clear()
clear(buf) == [idx \in Indices |-> Dead]

(* ------------------------------ drawing ------------------------------- *)

Rects == Rows \X Cols

\* drawGrid strokes the grid lines; the cells' fills are repainted after it.
drawGrid(cv) == cv

paintCells(colour, cellState, view, cv) ==
    [p \in Rects |->
        IF view[getIndex(p[1], p[2])] = cellState THEN colour ELSE cv[p]]

\* drawCells painting from the view it was handed, without universe.cells().
drawCellsCached(buf, fresh, cv) ==
    LET dead == paintCells(DEAD_COLOR, Dead, buf, cv)
        alive == paintCells(ALIVE_COLOR, Alive, buf, dead)
    IN  [canvas |-> alive, buffer |-> buf, fresh |-> fresh, stale |-> ~fresh]

\* drawCells with paintCells assigning cellState to cells[idx] where it
\* should compare: the dead pass zeroes the view and fills nothing, the
\* live pass sets every cell and fills them all.
drawCellsAssigning(buf, fresh, cv) ==
    [canvas |-> [p \in Rects |-> ALIVE_COLOR],
     buffer |-> [idx \in Indices |-> Alive],
     fresh |-> TRUE,
     stale |-> FALSE]

\* drawCells: fetch the view with universe.cells(), then paint from it.
\* fresh tells whether the view read is one fetched after the last mutation.
drawCells(buf, fresh, cv) ==
    LET fetched == TRUE
        dead == paintCells(DEAD_COLOR, Dead, buf, cv)
        alive == paintCells(ALIVE_COLOR, Alive, buf, dead)
    IN  [canvas |-> alive, buffer |-> buf, fresh |-> fetched,
         stale |-> ~fetched]

\* drawGrid(); drawCells();
redraw(buf, fresh, cv) == drawCells(buf, fresh, drawGrid(cv))

(* ------------------------- one redraw, call by call -------------------- *)

\* The calls one redraw makes, in their order: paintCells' loops run
\* row by row, column by column.
loopOrder ==
    [i \in 1 .. (Height * Width) |-> <<(i - 1) \div Width, (i - 1) % Width>>]

\* ctx.fillRect(col * (CELL_SIZE + 1) + 1, row * (CELL_SIZE + 1) + 1,
\*              CELL_SIZE, CELL_SIZE) with ctx.fillStyle = colour.
fillRect(colour, row, col) ==
    [fillStyle |-> colour,
     x |-> col * (CELL_SIZE + 1) + 1,
     y |-> row * (CELL_SIZE + 1) + 1,
     w |-> CELL_SIZE,
     h |-> CELL_SIZE]

\* The indices paintCells reads from the view, one per turn of its loops.
paintCellsReads(view) ==
    [i \in 1 .. Len(loopOrder) |-> getIndex(loopOrder[i][1], loopOrder[i][2])]

\* paintCells filling every cell, whatever its state.
paintCellsFillsAll(colour, cellState, view) ==
    [i \in 1 .. Len(loopOrder) |->
        fillRect(colour, loopOrder[i][1], loopOrder[i][2])]

\* The fillRect calls of paintCells: one per cell in the state asked for.
paintCellsFills(colour, cellState, view) ==
    LET painted ==
            SelectSeq(loopOrder,
                      LAMBDA p : view[getIndex(p[1], p[2])] = cellState)
    IN  [i \in 1 .. Len(painted) |->
            fillRect(colour, painted[i][1], painted[i][2])]

\* drawCells: the dead cells' pass, then the live cells' pass.
drawCellsReads(view) == paintCellsReads(view) \o paintCellsReads(view)

drawCellsFills(view) ==
    paintCellsFills(DEAD_COLOR, Dead, view)
        \o paintCellsFills(ALIVE_COLOR, Alive, view)

(* ---------------------------- render loop ----------------------------- *)

Chains == timers + Cardinality(rafs)

\* requestAnimationFrame returns an id that no pending request has. The
\* browser's ids are never reused; the model reuses the id of a callback
\* that has run or was cancelled, which the program cannot tell apart: the
\* only place an id is kept is animationId, and renderLoop overwrites it
\* with the id of every request it makes.
requestAnimationFrame ==
    CHOOSE id \in 1 .. MaxChains :
        /\ id \notin rafs
        /\ \A other \in 1 .. (id - 1) : other \in rafs

cancelAnimationFrame(id) == rafs \ {id}

\* renderLoop without its call of universe.tick().
renderLoopNoTick ==
    LET drawn == redraw(cells, viewFresh, canvas)
    IN  /\ cells' = drawn.buffer
        /\ canvas' = drawn.canvas
        /\ viewFresh' = drawn.fresh
        /\ staleRead' = (staleRead \/ drawn.stale)
        /\ timers' = timers + 1

\* renderLoop up to its await: tick, redraw, start the sleep timer.
renderLoop ==
    LET next == tick(cells)
        drawn == redraw(next, FALSE, canvas)
    IN  /\ cells' = drawn.buffer
        /\ canvas' = drawn.canvas
        /\ viewFresh' = drawn.fresh
        /\ staleRead' = (staleRead \/ drawn.stale)
        /\ timers' = timers + 1

\* The delay renderLoop hands to sleep().
sleepArgument == speed

\* renderLoop ending at its await, with no further frame requested.
renderLoopResumeOnce ==
    /\ timers' = timers - 1
    /\ UNCHANGED <<animationId, rafs>>

\* renderLoop after its await: the timer has fired and the promise resolved.
renderLoopResume ==
    /\ timers' = timers - 1
    /\ IF ~paused
          THEN /\ animationId' = requestAnimationFrame
               /\ rafs' = rafs \cup {requestAnimationFrame}
          ELSE UNCHANGED <<animationId, rafs>>

isPaused == animationId = Null

play ==
    /\ paused' = FALSE
    /\ buttonText' = PAUSE_ICON
    /\ renderLoop
    /\ UNCHANGED <<animationId, rafs>>

pause ==
    /\ paused' = TRUE
    /\ buttonText' = PLAY_ICON
    /\ rafs' = cancelAnimationFrame(animationId)
    /\ animationId' = Null
    /\ UNCHANGED <<timers, cells, canvas, viewFresh, staleRead>>

(* ----------------------------- handlers ------------------------------- *)

\* playPauseButton's click listener.
PlayPauseClick ==
    /\ IF isPaused
          THEN Chains < MaxChains /\ play
          ELSE pause
    /\ UNCHANGED speedvars

\* A sleep timer fires; the continuation of renderLoop runs as a microtask.
SleepExpires ==
    /\ timers > 0
    /\ renderLoopResume
    /\ UNCHANGED <<paused, buttonText, cells, canvas, viewFresh, staleRead>>
    /\ UNCHANGED speedvars

\* The browser runs the animation-frame callback with this id.
RafFires(id) ==
    /\ id \in rafs
    /\ rafs' = rafs \ {id}
    /\ renderLoop
    /\ UNCHANGED <<paused, animationId, buttonText>>
    /\ UNCHANGED speedvars

\* The clear listener without its redraw.
ClearClickNoRedraw ==
    /\ cells' = clear(cells)
    /\ viewFresh' = FALSE
    /\ UNCHANGED <<canvas, staleRead>>
    /\ UNCHANGED ctlvars
    /\ UNCHANGED speedvars

\* The clear listener without its call of universe.clear().
ClearClickNoClear ==
    LET drawn == redraw(cells, viewFresh, canvas)
    IN  /\ cells' = drawn.buffer
        /\ canvas' = drawn.canvas
        /\ viewFresh' = drawn.fresh
        /\ staleRead' = (staleRead \/ drawn.stale)
        /\ UNCHANGED ctlvars
        /\ UNCHANGED speedvars

\* clearButton's click listener.
ClearClick ==
    LET next == clear(cells)
        drawn == redraw(next, FALSE, canvas)
    IN  /\ cells' = drawn.buffer
        /\ canvas' = drawn.canvas
        /\ viewFresh' = drawn.fresh
        /\ staleRead' = (staleRead \/ drawn.stale)
        /\ UNCHANGED ctlvars
        /\ UNCHANGED speedvars

\* The slider's value taken as the delay, not inverted.
speedOfDirect(value) == value

\* speed = MAX_SPEED - slider.value
speedOf(value) == MAX_SPEED - value

\* The slider listener also dropping the requested frame.
SliderInputCancelling(value) ==
    /\ sliderValue' = value
    /\ speed' = speedOf(value)
    /\ sliderOutput' = value
    /\ rafs' = cancelAnimationFrame(animationId)
    /\ animationId' = Null
    /\ UNCHANGED <<cells, canvas, viewFresh, staleRead>>
    /\ UNCHANGED <<paused, timers, buttonText>>

\* slider's input listener, the slider now showing value.
SliderInput(value) ==
    /\ sliderValue' = value
    /\ speed' = speedOf(value)
    /\ sliderOutput' = value
    /\ UNCHANGED <<cells, canvas, viewFresh, staleRead>>
    /\ UNCHANGED ctlvars

(* ---------------------------- canvas click ---------------------------- *)

Min(a, b) == IF a < b THEN a ELSE b

\* A scale canvas.width / boundingRect.width is <<numerator, denominator>>.

\* boundingRect's extent for a canvas of dimension cells shown at scale.
rectSize(dimension, scale) ==
    (((CELL_SIZE + 1) * dimension + 1) * scale[2]) \div scale[1]

\* The same dividing by the cell's size without its grid line.
clickIndexNoLine(offset, scale, dimension) ==
    Min((offset * scale[1]) \div (scale[2] * CELL_SIZE), dimension - 1)

\* Math.min(Math.floor(offset * scale / (CELL_SIZE + 1)), dimension - 1),
\* offset being event.clientX - boundingRect.left (or Y and top).
clickIndex(offset, scale, dimension) ==
    Min((offset * scale[1]) \div (scale[2] * (CELL_SIZE + 1)), dimension - 1)

\* A click event: its offsets from the bounding box and the two scales.
clickRow(e) == clickIndex(e.y, e.scaleY, Height)
clickCol(e) == clickIndex(e.x, e.scaleX, Width)

\* The click listener handing (col, row) to toggle_cell.
CanvasClickSwapped(e) ==
    LET row == clickCol(e)
        col == clickRow(e)
        next == toggle_cell(cells, row, col)
        drawn == redraw(next, FALSE, canvas)
    IN  /\ IF InBounds(row, col)
              THEN /\ cells' = drawn.buffer
                   /\ canvas' = drawn.canvas
                   /\ viewFresh' = drawn.fresh
                   /\ staleRead' = (staleRead \/ drawn.stale)
              ELSE UNCHANGED <<cells, canvas, viewFresh, staleRead>>
        /\ UNCHANGED ctlvars
        /\ UNCHANGED speedvars

\* canvas' click listener. toggle_cell rejects indices outside the grid:
\* the exception ends the listener before the redraw.
CanvasClick(e) ==
    LET row == clickRow(e)
        col == clickCol(e)
        next == toggle_cell(cells, row, col)
        drawn == redraw(next, FALSE, canvas)
    IN  /\ IF InBounds(row, col)
              THEN /\ cells' = drawn.buffer
                   /\ canvas' = drawn.canvas
                   /\ viewFresh' = drawn.fresh
                   /\ staleRead' = (staleRead \/ drawn.stale)
              ELSE UNCHANGED <<cells, canvas, viewFresh, staleRead>>
        /\ UNCHANGED ctlvars
        /\ UNCHANGED speedvars

\* Click events with the canvas shown at its own size: one in each cell's
\* rectangle, one on the far corner of the bounding box, and three left of
\* it, above it, or both.
cellOffsets(dimension) ==
    {i * (CELL_SIZE + 1) + 1 : i \in 0 .. (dimension - 1)}

ClickSamples ==
    { [x |-> p[1], y |-> p[2], scaleX |-> <<1, 1>>, scaleY |-> <<1, 1>>] :
        p \in (cellOffsets(Width) \X cellOffsets(Height))
               \cup {<<rectSize(Width, <<1, 1>>), rectSize(Height, <<1, 1>>)>>,
                      <<-ClickMargin, 1>>, <<1, -ClickMargin>>,
                      <<-ClickMargin, -ClickMargin>>} }

\* canvas.height and canvas.width for a grid of dimension cells.
canvasSize(dimension) == (CELL_SIZE + 1) * dimension + 1

\* The canvas pixel that holds the point (canvasLeft, canvasTop) of a click.
canvasPixel(e) ==
    <<(e.x * e.scaleX[1]) \div e.scaleX[2],
      (e.y * e.scaleY[1]) \div e.scaleY[2]>>

\* The click at an offset, the canvas shown at scale along both axes.
clickAt(x, y, scale) == [x |-> x, y |-> y, scaleX |-> scale, scaleY |-> scale]

\* Clicks sweeping the canvas and ClickMargin pixels around it along each
\* axis in turn, through the first cell: the listener takes col from the
\* x offset alone and row from the y offset alone.
ClickSweeps ==
    {clickAt(1, y, <<1, 1>>) :
        y \in (-ClickMargin) .. (canvasSize(Height) - 1 + ClickMargin)}
    \cup {clickAt(x, 1, <<1, 1>>) :
        x \in (-ClickMargin) .. (canvasSize(Width) - 1 + ClickMargin)}

(* ---------------------- render loop without delay --------------------- *)

\* The page before the speed slider (unnamed/part_000): renderLoop is one
\* synchronous callback and there is no paused flag. It keeps the variables
\* of the page above; paused, timers and the slider's stay as they start.

\* requestAnimationFrame, the pending requests given.
requestAnimationFrameAmong(pending) ==
    CHOOSE id \in 1 .. MaxChains :
        /\ id \notin pending
        /\ \A other \in 1 .. (id - 1) : other \in pending

\* renderLoop: tick, redraw, request the next frame and keep its id.
renderLoopDirect(pending) ==
    LET next == tick(cells)
        drawn == redraw(next, FALSE, canvas)
    IN  /\ cells' = drawn.buffer
        /\ canvas' = drawn.canvas
        /\ viewFresh' = drawn.fresh
        /\ staleRead' = (staleRead \/ drawn.stale)
        /\ animationId' = requestAnimationFrameAmong(pending)
        /\ rafs' = pending \cup {requestAnimationFrameAmong(pending)}

playDirect ==
    /\ buttonText' = PAUSE_ICON
    /\ renderLoopDirect(rafs)

\* pause forgetting the id without cancelling the request.
pauseDirectNoCancel ==
    /\ buttonText' = PLAY_ICON
    /\ animationId' = Null
    /\ UNCHANGED <<rafs, cells, canvas, viewFresh, staleRead>>

pauseDirect ==
    /\ buttonText' = PLAY_ICON
    /\ rafs' = cancelAnimationFrame(animationId)
    /\ animationId' = Null
    /\ UNCHANGED <<cells, canvas, viewFresh, staleRead>>

\* playPauseButton's click listener.
PlayPauseClickDirect ==
    /\ IF isPaused
          THEN Cardinality(rafs) < MaxChains /\ playDirect
          ELSE pauseDirect
    /\ UNCHANGED <<paused, timers>>
    /\ UNCHANGED speedvars

\* The browser runs the animation-frame callback with this id.
RafFiresDirect(id) ==
    /\ id \in rafs
    /\ renderLoopDirect(rafs \ {id})
    /\ UNCHANGED <<paused, timers, buttonText>>
    /\ UNCHANGED speedvars

(* --------------------------- initial state ---------------------------- *)

\* The slider's values: every SliderStep-th one, and the two ends only.
SliderValues == {v \in 0 .. MAX_SPEED : v % SliderStep = 0}
SliderSamples == {0, MAX_SPEED}

Blank == [p \in Rects |-> "blank"]
NoDelay == <<>>

\* The state once the module's top level has run: Universe.new() seeded the
\* buffer, the first redraw painted it and play() ran renderLoop to its await.
\* timed: the specification records the delays handed to sleep().
InitWith(sliderValues, timed) ==
    /\ sliderValue \in sliderValues
    /\ speed = speedOf(sliderValue)
    /\ sliderOutput = sliderValue
    /\ paused = FALSE
    /\ animationId = Null
    /\ timers = 1
    /\ rafs = {}
    /\ buttonText = PAUSE_ICON
    /\ \E seed \in Grids :
          LET first == redraw(seed, FALSE, Blank)
              second == redraw(tick(seed), FALSE, first.canvas)
          IN  /\ cells = second.buffer
              /\ canvas = second.canvas
              /\ viewFresh = second.fresh
              /\ staleRead = (first.stale \/ second.stale)
    /\ sleepDelay = IF timed THEN sleepArgument ELSE NoDelay
    /\ cleared = "no"
    /\ beforeTick = NoGrid
    /\ lastClick = NoClick
    /\ clickRun = 0
    /\ beforeClick = NoGrid
    /\ frames = 1
    /\ lastPixel = NoPixel

\* The same for the page without delay: play() ran renderLoop to its end,
\* so the first frame is requested.
InitDirect ==
    /\ sliderValue = 0
    /\ speed = 0
    /\ sliderOutput = 0
    /\ paused = FALSE
    /\ animationId = requestAnimationFrameAmong({})
    /\ timers = 0
    /\ rafs = {requestAnimationFrameAmong({})}
    /\ buttonText = PAUSE_ICON
    /\ \E seed \in Grids :
          LET first == redraw(seed, FALSE, Blank)
              second == redraw(tick(seed), FALSE, first.canvas)
          IN  /\ cells = second.buffer
              /\ canvas = second.canvas
              /\ viewFresh = second.fresh
              /\ staleRead = (first.stale \/ second.stale)
    /\ sleepDelay = NoDelay
    /\ cleared = "no"
    /\ beforeTick = NoGrid
    /\ lastClick = NoClick
    /\ clickRun = 0
    /\ beforeClick = NoGrid
    /\ frames = 1
    /\ lastPixel = NoPixel

Init == InitWith(SliderSamples, FALSE)

(* ----------------------- steps and their history ---------------------- *)

clickvars == <<lastClick, clickRun, beforeClick>>
runvars == <<frames, lastPixel>>

ResetClicks ==
    /\ lastClick' = NoClick
    /\ clickRun' = 0
    /\ beforeClick' = NoGrid

\* tick() has run in this step.
Ticked == cleared' = IF cleared = "no" THEN "no" ELSE "ticked"

PlayPauseStep ==
    /\ PlayPauseClick
    /\ IF isPaused THEN Ticked ELSE UNCHANGED cleared
    /\ UNCHANGED <<sleepDelay, beforeTick, clickvars, runvars>>

SleepStep == SleepExpires /\ UNCHANGED hvars

RafStep ==
    \E id \in rafs :
        /\ RafFires(id)
        /\ Ticked
        /\ UNCHANGED <<sleepDelay, beforeTick, clickvars, runvars>>

\* The same with the buffer before tick() recorded.
RafStepRecorded ==
    \E id \in rafs :
        /\ RafFires(id)
        /\ Ticked
        /\ beforeTick' = cells
        /\ ResetClicks
        /\ UNCHANGED <<sleepDelay, runvars>>

\* The same with the delay handed to sleep() recorded.
RafStepTimed ==
    \E id \in rafs :
        /\ RafFires(id)
        /\ Ticked
        /\ sleepDelay' = sleepArgument
        /\ UNCHANGED <<beforeTick, clickvars, runvars>>

ClearStep ==
    /\ ClearClick
    /\ cleared' = "cleared"
    /\ beforeTick' = NoGrid
    /\ ResetClicks
    /\ UNCHANGED <<sleepDelay, runvars>>

SliderStepSampled ==
    \E v \in SliderSamples : SliderInput(v) /\ UNCHANGED hvars

SliderStepAny ==
    \E v \in SliderValues : SliderInput(v) /\ UNCHANGED hvars

\* A canvas click whose toggle_cell call is not recorded.
ClickStep ==
    \E e \in ClickSamples :
        /\ CanvasClick(e)
        /\ cleared' = "no"
        /\ UNCHANGED <<sleepDelay, beforeTick, clickvars, runvars>>

\* A canvas click, the indices handed to toggle_cell recorded.
ClickStepRecorded ==
    \E e \in ClickSamples :
        /\ CanvasClick(e)
        /\ cleared' = "no"
        /\ beforeTick' = NoGrid
        /\ lastClick' = <<clickRow(e), clickCol(e)>>
        /\ IF clickRun = 1 /\ lastClick = <<clickRow(e), clickCol(e)>>
              THEN clickRun' = 2 /\ UNCHANGED beforeClick
              ELSE clickRun' = 1 /\ beforeClick' = cells
        /\ UNCHANGED <<sleepDelay, runvars>>

\* renderLoop has run in this step: one more tick() and redraw.
Framed == frames' = 1 - frames

\* The play/pause click, the runs of renderLoop counted.
PlayPauseStepCounted ==
    /\ PlayPauseClick
    /\ IF isPaused THEN Ticked /\ Framed ELSE UNCHANGED <<cleared, frames>>
    /\ UNCHANGED <<sleepDelay, beforeTick, clickvars, lastPixel>>

\* The animation-frame callback, the runs of renderLoop counted.
RafStepCounted ==
    \E id \in rafs :
        /\ RafFires(id)
        /\ Ticked
        /\ Framed
        /\ UNCHANGED <<sleepDelay, beforeTick, clickvars, lastPixel>>

\* A canvas click in the first cell's rectangle, left of it or above it.
ClickStepCorner ==
    \E e \in {c \in ClickSamples : c.x <= 1 /\ c.y <= 1} :
        /\ CanvasClick(e)
        /\ cleared' = "no"
        /\ UNCHANGED <<sleepDelay, beforeTick, clickvars, runvars>>

\* A canvas click of the sweeps, its pixel and its indices recorded.
ClickStepPixel ==
    \E e \in ClickSweeps :
        /\ CanvasClick(e)
        /\ cleared' = "no"
        /\ lastClick' = <<clickRow(e), clickCol(e)>>
        /\ lastPixel' = canvasPixel(e)
        /\ UNCHANGED <<sleepDelay, beforeTick, clickRun, beforeClick, frames>>

\* The two of the page without delay.
PlayPauseStepDirect ==
    /\ PlayPauseClickDirect
    /\ IF isPaused THEN Ticked /\ Framed ELSE UNCHANGED <<cleared, frames>>
    /\ UNCHANGED <<sleepDelay, beforeTick, clickvars, lastPixel>>

RafStepDirect ==
    \E id \in rafs :
        /\ RafFiresDirect(id)
        /\ Ticked
        /\ Framed
        /\ UNCHANGED <<sleepDelay, beforeTick, clickvars, lastPixel>>

(* --------------------------- specifications --------------------------- *)

\* The whole page: every handler, every interleaving.
Next ==
    \/ PlayPauseStep
    \/ SleepStep
    \/ RafStep
    \/ ClearStep
    \/ SliderStepSampled
    \/ ClickStep

Spec == Init /\ [][Next]_vars

\* The grid under the running loop, the clear button and recorded clicks.
NextGrid ==
    \/ SleepStep
    \/ RafStepRecorded
    \/ ClearStep
    \/ ClickStepRecorded

SpecGrid == Init /\ [][NextGrid]_vars

\* The slider over all its values, under the running loop.
InitSpeed == InitWith(SliderValues, TRUE) /\ cells = clear(cells)

NextSpeed ==
    \/ SliderStepAny
    \/ SleepStep
    \/ RafStepTimed

SpecSpeed == InitSpeed /\ [][NextSpeed]_vars

\* The whole page with the browser's scheduling: a sleep timer that was
\* started fires, and a requested animation-frame callback that stays
\* pending is run. The universe starts empty and the clicks are those at
\* the first cell: the control takes nothing from the grid.
InitLive == Init /\ cells = clear(cells)

NextLive ==
    \/ PlayPauseStepCounted
    \/ SleepStep
    \/ RafStepCounted
    \/ ClearStep
    \/ SliderStepSampled
    \/ ClickStepCorner

SpecLive ==
    /\ InitLive
    /\ [][NextLive]_vars
    /\ WF_vars(SleepStep)
    /\ WF_vars(RafStepCounted)

\* The page without delay; its clear and canvas listeners are the same code.
NextDirect ==
    \/ PlayPauseStepDirect
    \/ RafStepDirect
    \/ ClearStep
    \/ ClickStep

SpecDirect == InitDirect /\ [][NextDirect]_vars

\* The canvas listener alone, on a universe that starts empty.
NextClick == ClickStepPixel

SpecClick == InitLive /\ [][NextClick]_vars

(* ------------------------------ claims -------------------------------- *)

\* renderLoop ran in this step: it alone starts a sleep timer, and it calls
\* universe.tick() before it does.
RenderLoopRan == timers' = timers + 1

\* C1: once pause() has run, universe.tick() is not executed again until
\* play() is next invoked. pause() sets paused and only play() resets it, so
\* while paused holds, renderLoop runs only in the step of play() itself,
\* which leaves paused false.
C1_NoTickAfterPause == [][paused /\ RenderLoopRan => ~paused']_vars

\* C2: the play/pause button is a true toggle: isPaused() is true exactly
\* when no render loop is active, that is when neither a sleep timer nor an
\* animation-frame callback of renderLoop is pending.
C2_IsPausedIffNoLoop == isPaused <=> (timers = 0 /\ rafs = {})

\* C3: at most one render-loop chain is active: sleep timers plus scheduled
\* animation-frame callbacks are never more than 1.
C3_AtMostOneChain == timers + Cardinality(rafs) <= 1

\* C4: the (row, col) handed to universe.toggle_cell by the canvas click
\* listener lie in 0 .. height-1 and 0 .. width-1, wherever the click was.
C4_ToggleArgsInRange ==
    lastClick # NoClick => InBounds(lastClick[1], lastClick[2])

\* C5: no redraw reads a buffer view obtained before a mutating engine call:
\* every drawCells fetches its view after the last tick(), toggle_cell() or
\* clear(), and no view outlives the step that fetched it.
C5_NoStaleView == ~staleRead /\ viewFresh

\* The loop has run frames, two chains are pending, and clear() was redrawn.
C5_Witness ==
    /\ cleared = "cleared"
    /\ timers + Cardinality(rafs) = 2
    /\ animationId # Null
    /\ viewFresh

colourOf(state) == IF state = Alive THEN ALIVE_COLOR ELSE DEAD_COLOR

\* C6: whenever control is back in the event loop, the cell states last
\* drawn on the canvas are the engine's current buffer.
C6_CanvasShowsBuffer ==
    \A p \in Rects : canvas[p] = colourOf(cells[getIndex(p[1], p[2])])

\* A frame has run and the canvas shows live and dead cells.
C6_Witness ==
    /\ animationId # Null
    /\ \E p \in Rects : cells[getIndex(p[1], p[2])] = Alive /\ canvas[p] = ALIVE_COLOR
    /\ \E p \in Rects : cells[getIndex(p[1], p[2])] = Dead /\ canvas[p] = DEAD_COLOR

\* C7: speed is MAX_SPEED minus the slider's value at every moment, a
\* non-negative integer for every slider value in 0 .. MAX_SPEED; a larger
\* slider value gives a strictly shorter delay; and the delay renderLoop
\* hands to sleep() is MAX_SPEED minus the slider's value at that moment.
C7_DelayIsInvertedSlider ==
    /\ [](/\ speed = MAX_SPEED - sliderValue
          /\ speed \in Nat
          /\ sleepDelay \in 0 .. MAX_SPEED)
    /\ [][sliderValue' > sliderValue => speed' < speed]_vars
    /\ [][RenderLoopRan => sleepDelay' = MAX_SPEED - sliderValue]_vars

\* The slider was moved to an inner value while a sleep with the delay of
\* the old value was pending or done.
C7_Witness ==
    /\ sliderValue \in 1 .. (MAX_SPEED - 1)
    /\ sleepDelay # speed
    /\ animationId # Null

AllDead == \A idx \in Indices : cells[idx] = Dead

\* C8: after the clear button's listener ran, every cell is Dead and stays
\* Dead through the ticks of the render loop until toggle_cell is called,
\* and every redraw in that period shows no live cell.
C8_ClearedStaysDead ==
    cleared # "no" => AllDead /\ \A p \in Rects : canvas[p] = DEAD_COLOR

\* Cleared, and the render loop has ticked since.
C8_Witness == cleared = "ticked" /\ AllDead

\* C9: one canvas click mapped to (r, c) changes cell (r, c) and no other;
\* a second one, with no tick between, restores the buffer as it was.
C9_TogglePairRestores ==
    (lastClick # NoClick /\ InBounds(lastClick[1], lastClick[2])) =>
        /\ clickRun = 1 =>
              \A idx \in Indices :
                  (cells[idx] # beforeClick[idx])
                      <=> (idx = lastClick[1] * Width + lastClick[2])
        /\ clickRun = 2 => cells = beforeClick

\* Two clicks on one cell off the diagonal, other cells being alive.
C9_Witness ==
    /\ clickRun = 2
    /\ lastClick # NoClick
    /\ InBounds(lastClick[1], lastClick[2])
    /\ lastClick[1] # lastClick[2]
    /\ \E idx \in Indices : cells[idx] = Alive

\* The live cells among the 8 positions (row +- 1, col +- 1), taken modulo
\* the grid's height and width.
LiveAround(buf, row, col) ==
    Cardinality({d \in ({-1, 0, 1} \X {-1, 0, 1}) \ {<<0, 0>>} :
        buf[((row + d[1]) % Height) * Width + ((col + d[2]) % Width)] = Alive})

NextGeneration(buf) ==
    [idx \in Indices |->
        LET n == LiveAround(buf, idx \div Width, idx % Width)
        IN  IF buf[idx] = Alive
               THEN IF n = 2 \/ n = 3 THEN Alive ELSE Dead
               ELSE IF n = 3 THEN Alive ELSE Dead]

\* C10: the tick() of renderLoop replaces the buffer by the next generation
\* of the buffer before it, on the torus: a live cell with 2 or 3 live
\* neighbours lives, a dead cell with exactly 3 becomes alive, every other
\* cell is dead, all counted in the buffer before the tick.
C10_TickIsNextGeneration ==
    beforeTick # NoGrid => cells = NextGeneration(beforeTick)

\* A tick in which the corner cell was born with the opposite corner among
\* its three live neighbours, and some live cell lived on.
C10_Witness ==
    /\ beforeTick # NoGrid
    /\ beforeTick[getIndex(0, 0)] = Dead
    /\ cells[getIndex(0, 0)] = Alive
    /\ beforeTick[getIndex(Height - 1, Width - 1)] = Alive
    /\ \E idx \in Indices : beforeTick[idx] = Alive /\ cells[idx] = Alive


\* C11: while the control is playing (paused is false), a continuation of
\* the render loop is pending, the button showing the pause icon included;
\* and when timers and animation-frame callbacks fire fairly, from every
\* state where the control is playing renderLoop runs once more (tick and
\* redraw) unless pause() runs first.
C11_LoopKeepsGoing ==
    /\ []((~paused \/ buttonText = PAUSE_ICON) => Chains >= 1)
    /\ \A parity \in {0, 1} :
          (~paused /\ frames = parity) ~> (paused \/ frames # parity)

\* Playing with a frame requested: the grid was cleared, and the loop has
\* run over it since.
C11_Witness ==
    /\ ~paused
    /\ animationId # Null
    /\ cleared = "ticked"
    /\ frames = 0


\* C12: in the render loop without delay, between handlers animationId is
\* the id of the one pending animation-frame callback, or null with none
\* pending; two callbacks are never pending; and from pause() on (the
\* button shows the play icon) renderLoop does not run, so nothing ticks,
\* before the step in which play() runs.
C12_IdIsThePendingFrame ==
    /\ [](/\ animationId # Null => rafs = {animationId}
          /\ animationId = Null => rafs = {}
          /\ Cardinality(rafs) <= 1)
    /\ [][buttonText = PLAY_ICON /\ frames' # frames
             => buttonText' = PAUSE_ICON]_vars

\* Paused, nothing pending, after the loop has run over a cleared grid.
C12_Witness ==
    /\ animationId = Null
    /\ buttonText = PLAY_ICON
    /\ rafs = {}
    /\ timers = 0
    /\ cleared = "ticked"


\* The buffer after the step is the one before it, or what one toggle_cell
\* call makes of it.
OneToggleAtMost ==
    \/ cells' = cells
    \/ \E row \in Rows, col \in Cols : cells' = toggle_cell(cells, row, col)

\* C13: a step of the clear, canvas-click or slider listener leaves paused,
\* animationId, the pending timers and frames, and the button as they
\* were, and runs no tick: the buffer after it is the cleared one, the
\* one with at most the clicked cell toggled, or the same one.
C13_ListenersLeaveTheLoop ==
    [][/\ \/ UNCHANGED ctlvars /\ cells' = clear(cells)
          \/ ~ClearClick
       /\ \/ UNCHANGED ctlvars /\ OneToggleAtMost
          \/ ~(\E e \in ClickSamples : CanvasClick(e))
       /\ \/ UNCHANGED ctlvars /\ cells' = cells
          \/ ~(\E v \in SliderSamples : SliderInput(v))]_vars

\* The grid was cleared while paused with nothing pending: still paused.
C13_Witness ==
    /\ paused
    /\ animationId = Null
    /\ Chains = 0
    /\ buttonText = PLAY_ICON
    /\ cleared = "cleared"


\* How often a sequence holds an element that passes the test.
Times(seq, Test(_)) == Cardinality({i \in 1 .. Len(seq) : Test(seq[i])})

\* The fills of one redraw that hit the rectangle of cell (row, col).
FillsAt(view, row, col) ==
    SelectSeq(drawCellsFills(view),
              LAMBDA f : /\ f.x = col * (CELL_SIZE + 1) + 1
                         /\ f.y = row * (CELL_SIZE + 1) + 1
                         /\ f.w = CELL_SIZE
                         /\ f.h = CELL_SIZE)

\* Every cell's rectangle is filled exactly once in a redraw, in the colour
\* of the cell's state in the buffer, and the canvas shows that fill.
EachCellFilledOnce ==
    /\ Len(drawCellsFills(cells)) = Height * Width
    /\ \A row \in Rows, col \in Cols :
          /\ Len(FillsAt(cells, row, col)) = 1
          /\ FillsAt(cells, row, col)[1].fillStyle
                = colourOf(cells[row * Width + col])
          /\ canvas[<<row, col>>] = FillsAt(cells, row, col)[1].fillStyle

\* C14 as stated: every cell's rectangle is filled exactly once in its
\* state's colour, and the redraw reads every index of the buffer once.
C14_OneTraversal ==
    /\ EachCellFilledOnce
    /\ \A idx \in Indices :
          Times(drawCellsReads(cells), LAMBDA r : r = idx) = 1

\* C14, amended: every cell's rectangle is filled exactly once in its
\* state's colour, and the redraw traverses the full buffer twice, once
\* for each of the two paintCells passes.
C14_OneFillTwoTraversals ==
    /\ EachCellFilledOnce
    /\ Len(drawCellsReads(cells)) = 2 * Height * Width
    /\ \A idx \in Indices :
          Times(drawCellsReads(cells), LAMBDA r : r = idx) = 2

\* A redraw by the running loop that painted cells of both states.
C14_Witness ==
    /\ animationId # Null
    /\ timers = 1
    /\ \E p \in Rects : canvas[p] = DEAD_COLOR
    /\ \E p \in Rects : canvas[p] = ALIVE_COLOR
    /\ Len(paintCellsFills(ALIVE_COLOR, Alive, cells)) >= 2
    /\ Len(paintCellsFills(DEAD_COLOR, Dead, cells)) >= 2


\* C15: a redraw leaves the buffer as it read it, so after a step in which
\* renderLoop ran the buffer is tick() of the one before, after the clear
\* listener it is clear() of it, and no step of the page leaves a buffer
\* other than the old one or the result of one tick(), toggle_cell() or
\* clear() call on it.
C15_RedrawOnlyReads ==
    /\ [](redraw(cells, viewFresh, canvas).buffer = cells)
    /\ [][/\ RenderLoopRan => cells' = tick(cells)
          /\ cleared' = "cleared" => cells' = clear(cells)
          /\ \/ OneToggleAtMost
             \/ cells' = clear(cells)
             \/ cells' = tick(cells)]_vars

\* Paused with live cells on the grid, the loop has run since the last
\* click and has requested no frame yet.
C15_Witness ==
    /\ paused
    /\ timers = 1
    /\ rafs = {}
    /\ cells # clear(cells)
    /\ \A p \in Rects : canvas[p] = colourOf(cells[getIndex(p[1], p[2])])


\* The canvas pixels, or with halves the half-pixel points, a fill covers.
Covered(f, halves) ==
    ((halves * f.x) .. (halves * (f.x + f.w) - 1))
        \X ((halves * f.y) .. (halves * (f.y + f.h) - 1))

\* C16: the rectangle a redraw fills for a cell lies inside the canvas, the
\* click listener maps every pixel of it (whole pixels, and half pixels of
\* a canvas shown at twice its size) to that cell's row and col, and a
\* click that fell into a cell's rectangle handed toggle_cell that cell.
C16_ClickHitsPaintedCell ==
    \A row \in Rows, col \in Cols :
        \A f \in {FillsAt(cells, row, col)[1]} :
            /\ f.x >= 0 /\ f.x + f.w <= canvasSize(Width)
            /\ f.y >= 0 /\ f.y + f.h <= canvasSize(Height)
            /\ \A halves \in {1, 2} : \A p \in Covered(f, halves) :
                  /\ clickRow(clickAt(p[1], p[2], <<1, halves>>)) = row
                  /\ clickCol(clickAt(p[1], p[2], <<1, halves>>)) = col
            /\ lastPixel \in Covered(f, 1) => lastClick = <<row, col>>

\* The last click fell on the far corner pixel of the rectangle of the cell
\* in the last row, first column, and that cell is now alive.
C16_Witness ==
    /\ lastPixel = <<1, (Height - 1) * (CELL_SIZE + 1) + CELL_SIZE>>
    /\ lastClick = <<Height - 1, 0>>
    /\ cells[getIndex(Height - 1, 0)] = Alive
    /\ canvas[<<Height - 1, 0>>] = ALIVE_COLOR

=============================================================================
